---- MODULE Spec2Model ----
(***************************************************************************)
(* A model of pathfinder-rag: the request pipeline (src/pipeline.py), the  *)
(* hybrid retriever (src/retrieval.py) and the parse/repair cascade of the *)
(* generator (src/generator.py).                                           *)
(*                                                                         *)
(* Text is a sequence of atoms.  An atom is a word, a number, one space,   *)
(* one punctuation mark or one dash character, so Python's substring test  *)
(* `n in h` is the contiguous-subsequence test on atoms, and str.replace   *)
(* is left-to-right replacement of an atom pattern.  A chunk id is a       *)
(* number; 0 stands for the empty / missing (falsy) id.  An optional value *)
(* (X | None) is a sequence of length at most one: <<>> is None.           *)
(***************************************************************************)
EXTENDS Integers, Sequences, FiniteSets, TLC

VARIABLES
  \* ---- src/pipeline.py: module state and generate_pathfinder_suggestions
  corpus,             \* the chunks ingest_docx(DOC_PATH) yields for the document
  _chunks_cache,      \* pipeline.py:14   (<<>> is None, <<chunks>> is loaded)
  _retriever_cache,   \* pipeline.py:15   (<<>> is None, <<retriever>> is built)
  pc,                 \* "idle" | "returned" | "raised": position of the handler
  age_range, income_type,
  retrieved, age_chunk, income_chunk, rationale_chunk,
  retrieved_filtered, final_context,
  llm_context,        \* generator.py:84  the chunks put into the prompt
  calls,              \* collaborators the current call has invoked, in order
  result,
  \* ---- src/generator.py: the parse cascade of generate_with_llm
  g_pc, raw, repaired, repair_calls, g_out,
  \* ---- src/pipeline.py: _load_retriever run by concurrent requests
  t_pc, t_arg, t_ret, ingests, builds,
  \* ---- src/retrieval.py: HybridRetriever.retrieve
  r_pc, r_in, r_out,
  \* ---- src/pipeline.py: _safe_context_set on arbitrary arguments
  c_pc, c_in, c_out

cacheVars == <<corpus, _chunks_cache, _retriever_cache>>
frameVars == <<pc, age_range, income_type, retrieved, age_chunk, income_chunk,
               rationale_chunk, retrieved_filtered, final_context, llm_context,
               calls, result>>
genVars  == <<g_pc, raw, repaired, repair_calls, g_out>>
loadVars == <<t_pc, t_arg, t_ret, ingests, builds>>
retVars  == <<r_pc, r_in, r_out>>
ctxVars  == <<c_pc, c_in, c_out>>
vars     == <<cacheVars, frameVars, genVars, loadVars, retVars, ctxVars>>

-----------------------------------------------------------------------------
(* Bounds of the model.                                                    *)
MaxRawLen      == 4   \* atoms in the backend's raw text
MaxRepairedLen == 3   \* atoms in the repair call's text
NThreads       == 3   \* concurrent requests in _load_retriever
MaxChunks      == 4   \* chunks indexed by the retriever under test
MaxRetrieved   == 3   \* length of the retrieved list given to _safe_context_set
MaxId          == 3   \* chunk ids given to _safe_context_set are 0..MaxId
MaxTopK        == 3   \* top_k given to _safe_context_set / retrieve is 0..MaxTopK

(* Program constants, src/config.py.                                       *)
TOP_K      == 5
BM25_TOP_N == 10

-----------------------------------------------------------------------------
(* Sequences and text.                                                     *)

Min(a, b) == IF a < b THEN a ELSE b

Range(s) == {s[i] : i \in 1..Len(s)}

\* s[:n] for n >= 0
Take(s, n) == SubSeq(s, 1, Min(n, Len(s)))

\* s[n:] for n >= 0 (n counts dropped elements)
Drop(s, n) == SubSeq(s, Min(n, Len(s)) + 1, Len(s))

\* Python's `n in h` on strings
Contains(h, n) ==
  \E i \in 0..(Len(h) - Len(n)) : SubSeq(h, i + 1, i + Len(n)) = n

\* str.lower(), atom by atom
LowerAtom(a) ==
  CASE a = "Age"        -> "age"
    [] a = "Income"     -> "income"
    [] a = "Type"       -> "type"
    [] a = "What"       -> "what"
    [] a = "Salary"     -> "salary"
    [] a = "Bonus"      -> "bonus"
    [] a = "Hourly"     -> "hourly"
    [] a = "Overtime"   -> "overtime"
    [] a = "Commission" -> "commission"
    [] a = "Self"       -> "self"
    [] a = "Employed"   -> "employed"
    [] a = "Other"      -> "other"
    [] a = "Employment" -> "employment"
    [] a = "Pension"    -> "pension"
    [] a = "Overview"   -> "overview"
    [] a = "Comparison" -> "comparison"
    [] a = "Glossary"   -> "glossary"
    [] OTHER            -> a

Lower(s) == [i \in 1..Len(s) |-> LowerAtom(s[i])]

\* str.replace(old, new): leftmost, non-overlapping occurrences
RECURSIVE Replace(_, _, _)
Replace(s, old, new) ==
  IF Len(s) < Len(old) THEN s
  ELSE IF SubSeq(s, 1, Len(old)) = old
       THEN new \o Replace(Drop(s, Len(old)), old, new)
       ELSE <<s[1]>> \o Replace(Drop(s, 1), old, new)

\* words joined by single spaces
RECURSIVE Words(_)
Words(ws) ==
  IF Len(ws) = 0 THEN <<>>
  ELSE IF Len(ws) = 1 THEN <<ws[1]>>
  ELSE <<ws[1], " ">> \o Words(Tail(ws))

HYPHEN == "-"
ENDASH == "en-dash"      \* U+2013
EMDASH == "em-dash"      \* U+2014
MINUS  == "minus-sign"   \* U+2212
FIGDASH == "figure-dash" \* U+2012
HBAR   == "horizontal-bar" \* U+2015
NL     == "newline"

Band(a, b) == <<a, HYPHEN, b>>

-----------------------------------------------------------------------------
(* src/config.py                                                           *)

SUPPORTED_AGE_RANGES ==
  << Band("18", "24"), Band("25", "34"), Band("35", "44"),
     Band("45", "54"), Band("55", "64"), <<"65", "+">> >>

SUPPORTED_INCOME_TYPES ==
  << <<"Salary">>,
     <<"Salary", " ", "+", " ", "Bonus">>,
     <<"Hourly", " ", "+", " ", "Overtime">>,
     <<"Commission">>,
     <<"Self", "-", "Employed">>,
     <<"Other", " ", "Employment", " ", "Income">> >>

-----------------------------------------------------------------------------
(* src/pipeline.py: text matching                                          *)

\* age_range.split("-", 1): the text before and after the first hyphen
RECURSIVE FirstIndex(_, _, _)
FirstIndex(s, a, i) ==
  IF i > Len(s) THEN 0
  ELSE IF s[i] = a THEN i
  ELSE FirstIndex(s, a, i + 1)

_age_variants(ar) ==
  IF FirstIndex(ar, HYPHEN, 1) = 0 THEN << ar >>
  ELSE LET k == FirstIndex(ar, HYPHEN, 1)
           a == SubSeq(ar, 1, k - 1)
           b == SubSeq(ar, k + 1, Len(ar))
       IN  << ar,
              Replace(ar, <<HYPHEN>>, <<ENDASH>>),
              a \o <<" ", "to", " ">> \o b,
              a \o <<" ", "to", " ">> \o b \o <<" ", "years">>,
              a \o <<HYPHEN>> \o b \o <<" ", "years">>,
              a \o <<ENDASH>> \o b \o <<" ", "years">> >>

_matches_any(haystack, needles) ==
  LET h == Lower(haystack)
  IN  \E i \in 1..Len(needles) : Contains(h, Lower(needles[i]))

HeadingAndText(c) == c.heading \o <<NL>> \o c.text

\* the first chunk, in list order, whose heading-or-text holds a needle
RECURSIVE _best_chunk_by_text(_, _)
_best_chunk_by_text(chunks, needles) ==
  IF Len(chunks) = 0 THEN <<>>
  ELSE IF _matches_any(HeadingAndText(chunks[1]), needles) THEN << chunks[1] >>
  ELSE _best_chunk_by_text(Tail(chunks), needles)

\* pipeline.py:67: the dash characters folded to the hyphen
DashVariants == {ENDASH, EMDASH, MINUS, FIGDASH, HBAR}

_normalize_age_text(s) ==
  LET t == [i \in 1..Len(s) |->
              IF LowerAtom(s[i]) \in DashVariants THEN HYPHEN ELSE LowerAtom(s[i])]
  IN  Replace(t, <<" ", "to", " ">>, <<HYPHEN>>)

\* pipeline.py:79-81
NormalizedHaystack(chunk) ==
  _normalize_age_text(chunk.heading) \o <<NL>> \o _normalize_age_text(chunk.text)

\* pipeline.py:83
age_bands == SUPPORTED_AGE_RANGES

\* pipeline.py:86
MentionsAnyBand(haystack) ==
  \E i \in 1..Len(age_bands) : Contains(haystack, age_bands[i])

\* pipeline.py:90-91
MatchesRequested(haystack, ar) ==
  LET vs == _age_variants(ar)
  IN  \E i \in 1..Len(vs) : Contains(haystack, _normalize_age_text(vs[i]))

_is_other_age_chunk_heading_only(chunk, ar) ==
  LET haystack == _normalize_age_text(chunk.heading)
  IN  IF ~MentionsAnyBand(haystack) THEN FALSE
      ELSE ~MatchesRequested(haystack, ar)

_is_other_age_chunk(chunk, ar) ==
  LET haystack == NormalizedHaystack(chunk)
  IN  IF ~MentionsAnyBand(haystack) THEN FALSE
      ELSE ~MatchesRequested(haystack, ar)

-----------------------------------------------------------------------------
(* src/retrieval.py: HybridRetriever.retrieve.  The lexical scores         *)
(* (BM25Okapi.get_scores) and the similarities (dot products of the        *)
(* embeddings) come from library models; they are inputs here, one number  *)
(* per corpus index (1-based).                                             *)

\* np.argsort(bm25_scores)[-bm25_top_n:] as the sets of indices it can
\* select: the bm25_top_n best scored; argsort's order among equal scores
\* is not specified.  [-0:] is the whole array.
Bm25TopIdx(n, bm25_scores, bm25_top_n) ==
  IF bm25_top_n = 0 \/ bm25_top_n >= n THEN { 1..n }
  ELSE { S \in SUBSET (1..n) :
           /\ Cardinality(S) = bm25_top_n
           /\ \A i \in S : \A j \in (1..n) \ S : bm25_scores[i] >= bm25_scores[j] }

\* Python's order on the tuples (sim, idx): x sorts before y under reverse=True
TupleGreaterAscendingIdx(x, y) == x[1] > y[1] \/ (x[1] = y[1] /\ x[2] < y[2])
TupleGreater(x, y) == x[1] > y[1] \/ (x[1] = y[1] /\ x[2] > y[2])

\* scored.sort(reverse=True)
RECURSIVE SortReverse(_)
SortReverse(S) ==
  IF S = {} THEN <<>>
  ELSE LET m == CHOOSE x \in S : \A y \in S \ {x} : TupleGreater(x, y)
       IN  <<m>> \o SortReverse(S \ {m})

\* the lists retrieve can return
retrieve(chunks, bm25_scores, sims, top_k, bm25_top_n) ==
  { LET scored      == { <<sims[idx], idx>> : idx \in cand }
        top_indices == Take([i \in 1..Cardinality(cand) |-> SortReverse(scored)[i][2]], top_k)
    IN  [i \in 1..Len(top_indices) |-> chunks[top_indices[i]]]
    : cand \in Bm25TopIdx(Len(chunks), bm25_scores, bm25_top_n) }

-----------------------------------------------------------------------------
(* src/pipeline.py: _safe_context_set                                      *)

add_without_seen_check(st, ch) ==
  IF ch = <<>> THEN st
  ELSE LET cid == ch[1].chunk_id
       IN  IF cid # 0
           THEN [final |-> Append(st.final, ch[1]), seen |-> st.seen \cup {cid}]
           ELSE st

\* the nested add(ch); st is [final, seen], ch is an optional chunk
add(st, ch) ==
  IF ch = <<>> THEN st
  ELSE LET cid == ch[1].chunk_id
       IN  IF cid # 0 /\ cid \notin st.seen
           THEN [final |-> Append(st.final, ch[1]), seen |-> st.seen \cup {cid}]
           ELSE st

\* for c in retrieved: add(c); if len(final) >= top_k: break
RECURSIVE FillLoop(_, _, _)
FillLoop(st, rest, top_k) ==
  IF Len(rest) = 0 THEN st
  ELSE LET st2 == add(st, << rest[1] >>)
       IN  IF Len(st2.final) >= top_k THEN st2
           ELSE FillLoop(st2, Tail(rest), top_k)

AddPriorityRationaleBeforeIncome(a, i, r) ==
  add(add(add([final |-> <<>>, seen |-> {}], a), r), i)

\* pipeline.py:120-122
AddPriority(a, i, r) ==
  add(add(add([final |-> <<>>, seen |-> {}], a), i), r)

_safe_context_set(retr, a, i, r, top_k) ==
  Take(FillLoop(AddPriority(a, i, r), retr, top_k).final, top_k)

-----------------------------------------------------------------------------
(* The documents the pipeline is run on: the sections below, any of them   *)
(* left out.  ingest_docx (src/ingest.py) yields one chunk per headed      *)
(* section, in document order, each with a unique non-empty chunk_id; the  *)
(* id is the section's position here.                                      *)

Library ==
  << [heading |-> <<"Overview">>,
      text    |-> Words(<<"general", "guidance">>)],
     [heading |-> <<"Age", " ", "55", EMDASH, "64">>,
      text    |-> Words(<<"downsizing", "and", "salary">>)],
     [heading |-> <<"Age", " ", "18", ENDASH, "24">>,
      text    |-> Words(<<"first", "home">>)],
     [heading |-> <<"Comparison">>,
      text    |-> <<"18", " ", "to", " ", "24", " ", "versus", " ", "65", "+">>],
     [heading |-> Words(<<"Income", "Type">>),
      text    |-> Words(<<"Commission", "income", "varies">>)],
     [heading |-> Words(<<"What", "is", "your", "age", "range">>),
      text    |-> Words(<<"age", "affects", "the", "loan", "term">>)],
     [heading |-> <<"Glossary">>,
      text    |-> Words(<<"common", "terms">>)] >>

\* the members of an index set, ascending
RECURSIVE Ascending(_)
Ascending(S) ==
  IF S = {} THEN <<>>
  ELSE LET m == CHOOSE x \in S : \A y \in S : x <= y
       IN  <<m>> \o Ascending(S \ {m})

ingest_docx(sections) ==
  [k \in 1..Len(sections) |->
     [chunk_id |-> k, heading |-> sections[k].heading, text |-> sections[k].text]]

\* the library with any of its sections left out
Documents ==
  { [k \in 1..Cardinality(S) |-> Library[Ascending(S)[k]]] : S \in SUBSET (1..Len(Library)) }

Corpora == { ingest_docx(d) : d \in Documents }

\* the requests tried
AgeInputs    == { Band("18", "24"), Band("55", "64"), <<"65", "+">>, Band("99", "100") }
IncomeInputs == { <<"Salary">>, <<"Commission">>, <<"Pension">> }

\* similarities the embedding model may give (one per chunk)
SimScores == {0, 1}

\* what the generation backend may decode to: the number of suggestions
\* and of follow-up questions
GenOutputs == { [suggestions |-> <<1, 2, 3, 4, 5, 6>>, follow_up_questions |-> <<1, 2, 3>>],
                [suggestions |-> <<1, 2>>, follow_up_questions |-> <<>>] }

-----------------------------------------------------------------------------
(* src/pipeline.py: generate_pathfinder_suggestions, one action per path   *)
(* through the handler.                                                    *)

NoLocals ==
  /\ retrieved = <<>> /\ age_chunk = <<>> /\ income_chunk = <<>>
  /\ rationale_chunk = <<>> /\ retrieved_filtered = <<>> /\ final_context = <<>>
  /\ llm_context = <<>> /\ calls = <<>> /\ result = <<>>
  /\ age_range = <<>> /\ income_type = <<>>

FrameIdle == pc = "idle" /\ NoLocals

PipeInit ==
  /\ corpus \in Corpora
  /\ _chunks_cache = <<>>
  /\ _retriever_cache = <<>>
  /\ FrameIdle

\* pipeline.py:147
ProfileSupportedAnd(ar, it) ==
  ~(ar \notin Range(SUPPORTED_AGE_RANGES) /\ it \notin Range(SUPPORTED_INCOME_TYPES))
ProfileSupported(ar, it) ==
  ~(ar \notin Range(SUPPORTED_AGE_RANGES) \/ it \notin Range(SUPPORTED_INCOME_TYPES))

\* pipeline.py:139-144
EmptyResult(ar, it) ==
  [profile |-> [age_range |-> ar, income_type |-> it],
   suggestions |-> <<>>, follow_up_questions |-> <<>>, retrieved_evidence |-> <<>>]

WithQuestions(res, qs) ==
  [profile |-> res.profile, suggestions |-> res.suggestions,
   follow_up_questions |-> res.follow_up_questions,
   retrieved_evidence |-> res.retrieved_evidence,
   insufficient_context |-> TRUE, clarifying_questions |-> qs]

\* _load_retriever run without interruption: the caches after it and the
\* collaborators it called
LoadRetriever ==
  IF _retriever_cache = <<>>
  THEN LET cc == [obj |-> 1, chunks |-> corpus]
       IN  [chunks_cache |-> << cc >>,
            retriever_cache |-> << [obj |-> 1, built_from |-> cc] >>,
            called |-> <<"ingest_docx", "HybridRetriever">>]
  ELSE [chunks_cache |-> _chunks_cache, retriever_cache |-> _retriever_cache,
        called |-> <<>>]

\* pipeline.py:181
RECURSIVE FilterOtherAge(_, _)
FilterOtherAge(retr, ar) ==
  IF Len(retr) = 0 THEN <<>>
  ELSE (IF _is_other_age_chunk(retr[1], ar) THEN <<>> ELSE << retr[1] >>)
       \o FilterOtherAge(Tail(retr), ar)

\* pipeline.py:174-176
IncomeChunk(all_chunks, it) ==
  LET found == _best_chunk_by_text(all_chunks, << it >>)
  IN  IF found # <<>> THEN found
      ELSE _best_chunk_by_text(all_chunks, << Words(<<"income", "type">>) >>)

\* generator.py:84: the chunks generate_with_llm puts into the prompt
PromptChunks(context_chunks) == Take(context_chunks, 3)

\* pipeline.py:199-206
Evidence(ctx) == [k \in 1..Len(ctx) |-> [chunk_id |-> ctx[k].chunk_id]]

\* pipeline.py:147-153
InvalidProfile(ar, it) ==
  /\ UNCHANGED <<genVars, loadVars, retVars, ctxVars>>
  /\ pc = "idle"
  /\ ~ProfileSupported(ar, it)
  /\ age_range' = ar /\ income_type' = it
  /\ result' = << WithQuestions(EmptyResult(ar, it),
                     <<"confirm supported age range", "confirm supported income type">>) >>
  /\ calls' = <<>>
  /\ pc' = "returned"
  /\ UNCHANGED <<corpus, _chunks_cache, _retriever_cache, retrieved, age_chunk,
                 income_chunk, rationale_chunk, retrieved_filtered, final_context,
                 llm_context>>

\* similarities the embedding model may give the chunks for a query
SimsFor(chunks) == [1..Len(chunks) -> SimScores]

\* pipeline.py:161: the lists retriever.retrieve may return.  At most
\* BM25_TOP_N chunks are indexed here, so every chunk is a lexical
\* candidate whatever its BM25 score.
Retrieved(retriever) ==
  UNION { retrieve(retriever.built_from.chunks,
                   [i \in 1..Len(retriever.built_from.chunks) |-> 0],
                   sims, TOP_K, BM25_TOP_N)
          : sims \in SimsFor(retriever.built_from.chunks) }

\* pipeline.py:155-169
NoEvidence(ar, it) ==
  /\ UNCHANGED <<genVars, loadVars, retVars, ctxVars>>
  /\ pc = "idle"
  /\ ProfileSupported(ar, it)
  /\ LET ld == LoadRetriever
     IN  /\ _chunks_cache' = ld.chunks_cache
         /\ _retriever_cache' = ld.retriever_cache
         /\ calls' = ld.called \o <<"retrieve">>
         /\ \E retr \in Retrieved(ld.retriever_cache[1]) :
              /\ retr = <<>>
              /\ retrieved' = retr
  /\ age_range' = ar /\ income_type' = it
  /\ result' = << WithQuestions(EmptyResult(ar, it),
                     <<"no sections retrieved, confirm age range", "confirm income type">>) >>
  /\ pc' = "returned"
  /\ UNCHANGED <<corpus, age_chunk, income_chunk, rationale_chunk,
                 retrieved_filtered, final_context, llm_context>>

\* pipeline.py:155-193 up to the call of generate_with_llm
Assemble(ar, it) ==
  /\ UNCHANGED <<genVars, loadVars, retVars, ctxVars>>
  /\ pc = "idle"
  /\ ProfileSupported(ar, it)
  /\ LET ld == LoadRetriever
         all_chunks == ld.chunks_cache[1].chunks
     IN  /\ _chunks_cache' = ld.chunks_cache
         /\ _retriever_cache' = ld.retriever_cache
         /\ calls' = ld.called \o <<"retrieve", "generate_with_llm">>
         /\ age_chunk' = _best_chunk_by_text(all_chunks, _age_variants(ar))
         /\ income_chunk' = IncomeChunk(all_chunks, it)
         /\ rationale_chunk' =
              _best_chunk_by_text(all_chunks, << Words(<<"what", "is", "your", "age", "range">>) >>)
         /\ \E retr \in Retrieved(ld.retriever_cache[1]) :
              /\ retr # <<>>
              /\ retrieved' = retr
  /\ retrieved_filtered' = FilterOtherAge(retrieved', ar)
  /\ final_context' = _safe_context_set(retrieved_filtered', age_chunk', income_chunk',
                                        rationale_chunk', TOP_K)
  /\ llm_context' = PromptChunks(final_context')
  /\ age_range' = ar /\ income_type' = it
  /\ UNCHANGED corpus

\* pipeline.py:193-208: the backend answered
Success(ar, it) ==
  /\ Assemble(ar, it)
  /\ \E gen \in GenOutputs :
       result' = << [profile |-> [age_range |-> ar, income_type |-> it],
                     suggestions |-> Take(gen.suggestions, 5),
                     follow_up_questions |-> gen.follow_up_questions,
                     retrieved_evidence |-> Evidence(final_context')] >>
  /\ pc' = "returned"

\* pipeline.py:193: generate_with_llm raised (transport error, or the parse
\* cascade exhausted); the exception leaves the handler
GenerationRaises(ar, it) ==
  /\ Assemble(ar, it)
  /\ result' = <<>>
  /\ pc' = "raised"

\* the caller has the result (or the exception); the frame is gone
Return ==
  /\ UNCHANGED <<genVars, loadVars, retVars, ctxVars>>
  /\ pc \in {"returned", "raised"}
  /\ pc' = "idle"
  /\ retrieved' = <<>> /\ age_chunk' = <<>> /\ income_chunk' = <<>>
  /\ rationale_chunk' = <<>> /\ retrieved_filtered' = <<>> /\ final_context' = <<>>
  /\ llm_context' = <<>> /\ calls' = <<>> /\ result' = <<>>
  /\ age_range' = <<>> /\ income_type' = <<>>
  /\ UNCHANGED <<corpus, _chunks_cache, _retriever_cache>>

PipeNext ==
  \/ pc = "idle" /\ \E ar \in AgeInputs, it \in IncomeInputs : InvalidProfile(ar, it)
  \/ pc = "idle" /\ \E ar \in AgeInputs, it \in IncomeInputs : NoEvidence(ar, it)
  \/ pc = "idle" /\ \E ar \in AgeInputs, it \in IncomeInputs : Success(ar, it)
  \/ pc = "idle" /\ \E ar \in AgeInputs, it \in IncomeInputs : GenerationRaises(ar, it)
  \/ Return

-----------------------------------------------------------------------------
(* src/generator.py: the parse cascade of generate_with_llm.               *)
(*                                                                         *)
(* The backend's text is a sequence of the atoms                            *)
(*   "{"  "}"   the brace characters                                        *)
(*   "V"        the members "suggestions": [], "follow_up_questions": []    *)
(*   "[]"       an array literal                                            *)
(*   "g"        prose that is no JSON and holds no brace                    *)

JsonAtoms == {"{", "}", "V", "[]", "g"}

TextsUpTo(n) == UNION { [1..k -> JsonAtoms] : k \in 0..n }

JSONDecodeError == <<>>

\* json.loads: <<value>>, or JSONDecodeError
json_loads(t) ==
  IF t = <<"[]">> THEN << [kind |-> "array", keys |-> {}] >>
  ELSE IF t = <<"{", "}">> THEN << [kind |-> "object", keys |-> {}] >>
  ELSE IF t = <<"{", "V", "}">>
       THEN << [kind |-> "object", keys |-> {"suggestions", "follow_up_questions"}] >>
  ELSE JSONDecodeError

\* text.find("{") and text.rfind("}"), 1-based; 0 is Python's -1
Find(t, a) == FirstIndex(t, a, 1)
RECURSIVE LastIndex(_, _, _)
LastIndex(t, a, i) ==
  IF i < 1 THEN 0
  ELSE IF t[i] = a THEN i
  ELSE LastIndex(t, a, i - 1)
RFind(t, a) == LastIndex(t, a, Len(t))

\* _extract_json_object: <<slice>>, or <<>> for the ValueError
_extract_json_object(t) ==
  LET start == Find(t, "{")
      end   == RFind(t, "}")
  IN  IF start = 0 \/ end = 0 \/ end <= start THEN <<>>
      ELSE << SubSeq(t, start, end) >>

\* generator.py:129-133: <<value>>, or <<>> when the try block raised
ParseExtracted(t) ==
  IF _extract_json_object(t) = <<>> THEN <<>>
  ELSE json_loads(_extract_json_object(t)[1])

\* generator.py:123-133 fell through: both attempts on raw raised
ReachesRepairDirectOnly(t) == json_loads(t) = JSONDecodeError
ReachesRepair(t) == json_loads(t) = JSONDecodeError /\ ParseExtracted(t) = <<>>

\* generator.py:137-141: <<value>>, or <<>> when an exception leaves the function
ParseRepaired(t) ==
  IF json_loads(t) # JSONDecodeError THEN json_loads(t)
  ELSE ParseExtracted(t)

GenIdle ==
  g_pc = "idle" /\ raw = <<>> /\ repaired = <<>> /\ repair_calls = 0 /\ g_out = <<>>

\* generator.py:120-126: attempt 1 returns
DirectParse(rw) ==
  /\ UNCHANGED <<cacheVars, frameVars, loadVars, retVars, ctxVars>>
  /\ g_pc = "idle"
  /\ json_loads(rw) # JSONDecodeError
  /\ raw' = << rw >>
  /\ g_out' = json_loads(rw)
  /\ g_pc' = "returned"
  /\ UNCHANGED <<repaired, repair_calls>>

\* generator.py:120-133: attempt 1 raised, attempt 2 returns
ExtractParse(rw) ==
  /\ UNCHANGED <<cacheVars, frameVars, loadVars, retVars, ctxVars>>
  /\ g_pc = "idle"
  /\ json_loads(rw) = JSONDecodeError
  /\ ParseExtracted(rw) # <<>>
  /\ raw' = << rw >>
  /\ g_out' = ParseExtracted(rw)
  /\ g_pc' = "returned"
  /\ UNCHANGED <<repaired, repair_calls>>

\* generator.py:120-141: the repair call is made and its text parses
RepairParse(rw, rp) ==
  /\ UNCHANGED <<cacheVars, frameVars, loadVars, retVars, ctxVars>>
  /\ g_pc = "idle"
  /\ ReachesRepair(rw)
  /\ raw' = << rw >>
  /\ repaired' = << rp >>
  /\ repair_calls' = repair_calls + 1
  /\ ParseRepaired(rp) # <<>>
  /\ g_out' = ParseRepaired(rp)
  /\ g_pc' = "returned"

\* generator.py:120-141: the repair call is made and its text does not
\* parse either: ValueError or JSONDecodeError leaves the function
RepairFails(rw, rp) ==
  /\ UNCHANGED <<cacheVars, frameVars, loadVars, retVars, ctxVars>>
  /\ g_pc = "idle"
  /\ ReachesRepair(rw)
  /\ raw' = << rw >>
  /\ repaired' = << rp >>
  /\ repair_calls' = repair_calls + 1
  /\ ParseRepaired(rp) = <<>>
  /\ g_out' = <<>>
  /\ g_pc' = "raised"

\* the caller has the value (or the exception); the next request starts
GenReturn ==
  /\ UNCHANGED <<cacheVars, frameVars, loadVars, retVars, ctxVars>>
  /\ g_pc \in {"returned", "raised"}
  /\ g_pc' = "idle" /\ raw' = <<>> /\ repaired' = <<>> /\ repair_calls' = 0 /\ g_out' = <<>>

GenNext ==
  \/ g_pc = "idle" /\ \E rw \in TextsUpTo(MaxRawLen) : DirectParse(rw)
  \/ g_pc = "idle" /\ \E rw \in TextsUpTo(MaxRawLen) : ExtractParse(rw)
  \/ g_pc = "idle" /\ \E rw \in TextsUpTo(MaxRawLen), rp \in TextsUpTo(MaxRepairedLen) :
                         RepairParse(rw, rp)
  \/ g_pc = "idle" /\ \E rw \in TextsUpTo(MaxRawLen), rp \in TextsUpTo(MaxRepairedLen) :
                         RepairFails(rw, rp)
  \/ GenReturn

-----------------------------------------------------------------------------
(* src/pipeline.py: _load_retriever called by NThreads requests at once.   *)
(* One action per statement; a thread may be preempted between statements  *)
(* and inside the long-running constructor of line 23, after its argument  *)
(* has been read.  Every ingest_docx call makes a new list object and      *)
(* every HybridRetriever call a new retriever object (obj numbers them).   *)

Threads == 1..NThreads

LoadIdle ==
  /\ t_pc = [t \in Threads |-> "call"]
  /\ t_arg = [t \in Threads |-> <<>>]
  /\ t_ret = [t \in Threads |-> <<>>]
  /\ ingests = 0
  /\ builds = 0

LoadInit ==
  /\ corpus = ingest_docx(Library)
  /\ _chunks_cache = <<>>
  /\ _retriever_cache = <<>>
  /\ LoadIdle

\* pipeline.py:21
CheckCache(t) ==
  /\ UNCHANGED <<frameVars, genVars, retVars, ctxVars>>
  /\ t_pc[t] = "call"
  /\ t_pc' = [t_pc EXCEPT ![t] = IF _retriever_cache = <<>> THEN "ingest" ELSE "return"]
  /\ UNCHANGED <<cacheVars, t_arg, t_ret, ingests, builds>>

\* pipeline.py:22
IngestStep(t) ==
  /\ UNCHANGED <<frameVars, genVars, retVars, ctxVars>>
  /\ t_pc[t] = "ingest"
  /\ ingests' = ingests + 1
  /\ _chunks_cache' = << [obj |-> ingests', chunks |-> corpus] >>
  /\ t_pc' = [t_pc EXCEPT ![t] = "build"]
  /\ UNCHANGED <<corpus, _retriever_cache, t_arg, t_ret, builds>>

\* pipeline.py:23: the argument is read and HybridRetriever.__init__ starts
BuildStart(t) ==
  /\ UNCHANGED <<frameVars, genVars, retVars, ctxVars>>
  /\ t_pc[t] = "build"
  /\ t_arg' = [t_arg EXCEPT ![t] = _chunks_cache]
  /\ t_pc' = [t_pc EXCEPT ![t] = "assign"]
  /\ UNCHANGED <<cacheVars, t_ret, ingests, builds>>

\* pipeline.py:23: the constructor is done and the global is assigned
BuildEnd(t) ==
  /\ UNCHANGED <<frameVars, genVars, retVars, ctxVars>>
  /\ t_pc[t] = "assign"
  /\ builds' = builds + 1
  /\ _retriever_cache' = << [obj |-> builds', built_from |-> t_arg[t][1]] >>
  /\ t_pc' = [t_pc EXCEPT ![t] = "return"]
  /\ UNCHANGED <<corpus, _chunks_cache, t_arg, t_ret, ingests>>

\* pipeline.py:24
ReturnCaches(t) ==
  /\ UNCHANGED <<frameVars, genVars, retVars, ctxVars>>
  /\ t_pc[t] = "return"
  /\ t_ret' = [t_ret EXCEPT ![t] =
                 << [retriever |-> _retriever_cache[1], chunks |-> _chunks_cache[1]] >>]
  /\ t_pc' = [t_pc EXCEPT ![t] = "done"]
  /\ UNCHANGED <<cacheVars, t_arg, ingests, builds>>

LoadNext ==
  \/ \E t \in Threads : CheckCache(t)
  \/ \E t \in Threads : IngestStep(t)
  \/ \E t \in Threads : BuildStart(t)
  \/ \E t \in Threads : BuildEnd(t)
  \/ \E t \in Threads : ReturnCaches(t)

-----------------------------------------------------------------------------
(* src/retrieval.py: retrieve on an indexed corpus of MaxChunks chunks,    *)
(* for any lexical scores, similarities, top_k and bm25_top_n.             *)

BM25Scores == {0, 1}

IndexedChunks == [k \in 1..MaxChunks |-> [chunk_id |-> k]]

RetIdle == r_pc = "idle" /\ r_out = <<>>

RetInit ==
  /\ r_in \in [bm25_scores : [1..MaxChunks -> BM25Scores],
               sims        : [1..MaxChunks -> SimScores],
               top_k       : 0..MaxTopK,
               bm25_top_n  : 0..MaxTopK]
  /\ RetIdle

RetrieveCall ==
  /\ UNCHANGED <<cacheVars, frameVars, genVars, loadVars, ctxVars>>
  /\ r_pc = "idle"
  /\ r_out' \in retrieve(IndexedChunks, r_in.bm25_scores, r_in.sims, r_in.top_k,
                         r_in.bm25_top_n)
  /\ r_pc' = "returned"
  /\ UNCHANGED r_in

RetNext == RetrieveCall

-----------------------------------------------------------------------------
(* src/pipeline.py: _safe_context_set on any arguments.  Only chunk_id is  *)
(* read, so a chunk is its id here; id 0 is the empty id.                  *)

ArgChunks == { [chunk_id |-> k] : k \in 0..MaxId }

OptionalChunks == { <<>> } \cup { << c >> : c \in ArgChunks }

CtxIdle == c_pc = "idle" /\ c_out = <<>>

CtxInit ==
  /\ c_in \in [retrieved       : UNION { [1..n -> ArgChunks] : n \in 0..MaxRetrieved },
               age_chunk       : OptionalChunks,
               income_chunk    : OptionalChunks,
               rationale_chunk : OptionalChunks,
               top_k           : 0..MaxTopK]
  /\ CtxIdle

SafeContextSetCall ==
  /\ UNCHANGED <<cacheVars, frameVars, genVars, loadVars, retVars>>
  /\ c_pc = "idle"
  /\ c_out' = _safe_context_set(c_in.retrieved, c_in.age_chunk, c_in.income_chunk,
                                c_in.rationale_chunk, c_in.top_k)
  /\ c_pc' = "returned"
  /\ UNCHANGED c_in

CtxNext == SafeContextSetCall

-----------------------------------------------------------------------------
(* The specifications: one per component, the others at rest.              *)

CacheEmpty == corpus = <<>> /\ _chunks_cache = <<>> /\ _retriever_cache = <<>>
RetUnused  == r_in = <<>> /\ RetIdle
CtxUnused  == c_in = <<>> /\ CtxIdle

\* generate_pathfinder_suggestions, request after request
Init == PipeInit /\ GenIdle /\ LoadIdle /\ RetUnused /\ CtxUnused
Next == PipeNext
Spec == Init /\ [][Next]_vars

\* generate_with_llm's parse cascade
InitGen == CacheEmpty /\ FrameIdle /\ GenIdle /\ LoadIdle /\ RetUnused /\ CtxUnused
SpecGen == InitGen /\ [][GenNext]_vars

\* concurrent _load_retriever
InitLoad == LoadInit /\ FrameIdle /\ GenIdle /\ RetUnused /\ CtxUnused
SpecLoad == InitLoad /\ [][LoadNext]_vars

\* HybridRetriever.retrieve
InitRetrieve == CacheEmpty /\ FrameIdle /\ GenIdle /\ LoadIdle /\ RetInit /\ CtxUnused
SpecRetrieve == InitRetrieve /\ [][RetNext]_vars

\* _safe_context_set
InitContext == CacheEmpty /\ FrameIdle /\ GenIdle /\ LoadIdle /\ RetUnused /\ CtxInit
SpecContext == InitContext /\ [][CtxNext]_vars

-----------------------------------------------------------------------------
(* Properties of generate_pathfinder_suggestions (Spec).                   *)

\* the call went past retrieval and built a context set
Assembled ==
  /\ pc \in {"returned", "raised"}
  /\ calls # <<>>
  /\ calls[Len(calls)] = "generate_with_llm"

Succeeded == pc = "returned" /\ Assembled

Ids(chunks) == [k \in 1..Len(chunks) |-> chunks[k].chunk_id]

\* the chunk's heading and text, dashes and "A to B" folded, hold the text
MentionsLiteral(c, lit) == Contains(_normalize_age_text(HeadingAndText(c)), lit)

MentionsBandOtherThan(c, ar) ==
  \E i \in 1..Len(SUPPORTED_AGE_RANGES) :
    SUPPORTED_AGE_RANGES[i] # ar /\ MentionsLiteral(c, SUPPORTED_AGE_RANGES[i])

MentionsRange(c, ar) ==
  \E i \in 1..Len(_age_variants(ar)) :
    MentionsLiteral(c, _normalize_age_text(_age_variants(ar)[i]))

\* the priority chunks that were found, and the part of the context set
\* behind their slots
PriorityChunks == Range(age_chunk) \cup Range(income_chunk) \cup Range(rationale_chunk)
FillPortion == Drop(final_context, Cardinality(PriorityChunks))

\* C1 as stated: a retrieved chunk that mentions a supported age band other
\* than the requested one, whether or not it also mentions the requested
\* one, is never in the fill portion of the context set.
C1_OtherBandNeverInFill ==
  Assembled =>
    \A c \in Range(retrieved) :
      MentionsBandOtherThan(c, age_range) => c \notin Range(FillPortion)

\* C1 amended: a retrieved chunk that mentions some supported age band and
\* does not mention the requested range in any accepted variant is never in
\* the fill portion of the context set; it is in the context set only as a
\* priority chunk.
C1_LeakageExclusion ==
  Assembled =>
    \A c \in Range(retrieved) :
      (MentionsBandOtherThan(c, age_range) /\ ~MentionsRange(c, age_range))
        => c \notin Range(FillPortion)

\* C1 witness: a retrieved chunk of another band is dropped from the fill,
\* another one is in the context set as a priority chunk, and the fill
\* portion is not empty.
C1_Witness ==
  /\ Assembled
  /\ FillPortion # <<>>
  /\ \E c \in Range(retrieved) :
       /\ MentionsBandOtherThan(c, age_range) /\ ~MentionsRange(c, age_range)
       /\ c \notin Range(final_context)
  /\ \E c \in Range(retrieved) :
       /\ MentionsBandOtherThan(c, age_range) /\ ~MentionsRange(c, age_range)
       /\ c \in PriorityChunks

\* C5: a request whose age range or income type is not supported returns
\* insufficient_context = true with exactly two clarifying questions and
\* empty suggestions, follow-up questions and evidence, having called
\* neither ingestion, the retriever's constructor, retrieve nor the
\* generation backend.
C5_ProfileGating ==
  ( /\ pc \in {"returned", "raised"}
    /\ \/ age_range \notin Range(SUPPORTED_AGE_RANGES)
       \/ income_type \notin Range(SUPPORTED_INCOME_TYPES) )
  => /\ pc = "returned"
     /\ "insufficient_context" \in DOMAIN result[1]
     /\ result[1].insufficient_context = TRUE
     /\ Len(result[1].clarifying_questions) = 2
     /\ result[1].suggestions = <<>>
     /\ result[1].follow_up_questions = <<>>
     /\ result[1].retrieved_evidence = <<>>
     /\ calls = <<>>
     /\ retrieved = <<>>
     /\ final_context = <<>>
     /\ llm_context = <<>>

\* C5 witness: a request with an unsupported age range and a supported
\* income type has returned, the index never having been built.
C5_Witness ==
  /\ pc = "returned"
  /\ age_range = Band("99", "100")
  /\ income_type = <<"Salary">>
  /\ _retriever_cache = <<>>
  /\ corpus # <<>>

\* the first chunk of the corpus, in corpus order, matching a needle
FirstMatch(needles) ==
  LET hits == { k \in 1..Len(corpus) : _matches_any(HeadingAndText(corpus[k]), needles) }
  IN  IF hits = {} THEN <<>>
      ELSE << corpus[CHOOSE k \in hits : \A j \in hits : k <= j] >>

ExpectedIncomeChunk ==
  IF FirstMatch(<< income_type >>) # <<>> THEN FirstMatch(<< income_type >>)
  ELSE FirstMatch(<< Words(<<"income", "type">>) >>)

\* the sequence with every chunk whose id occurred earlier removed
RECURSIVE FirstOccurrences(_, _)
FirstOccurrences(chunks, seen) ==
  IF Len(chunks) = 0 THEN <<>>
  ELSE IF chunks[1].chunk_id \in seen THEN FirstOccurrences(Tail(chunks), seen)
  ELSE << chunks[1] >> \o FirstOccurrences(Tail(chunks), seen \cup {chunks[1].chunk_id})

KeptByLeakageFilter(c) == ~(MentionsBandOtherThan(c, age_range) /\ ~MentionsRange(c, age_range))

ExpectedSequence ==
  FirstOccurrences(
    FirstMatch(_age_variants(age_range)) \o ExpectedIncomeChunk
      \o FirstMatch(<< Words(<<"what", "is", "your", "age", "range">>) >>)
      \o SelectSeq(retrieved, KeptByLeakageFilter),
    {})

\* C7: the context set is the first TOP_K elements of: the age chunk, the
\* income chunk, the rationale chunk (each the first match in corpus order,
\* a missing one taking no slot), then the retrieved chunks that pass the
\* leakage filter in rank order, chunk ids already present skipped.
C7_ContextOrdering ==
  Assembled => final_context = Take(ExpectedSequence, TOP_K)

\* C7 witness: all three priority chunks are found and distinct, the filter
\* drops a retrieved chunk, and the sequence is longer than TOP_K, so the
\* cut takes effect.
C7_Witness ==
  /\ Assembled
  /\ Cardinality(PriorityChunks) = 3
  /\ Len(retrieved_filtered) < Len(retrieved)
  /\ Len(ExpectedSequence) > TOP_K
  /\ Len(final_context) = TOP_K

\* C9 as stated: a chunk matches the requested range for the age priority
\* slot exactly when the leakage filter takes it to mention that range.
C9_MatcherAgreesWithFilter ==
  Assembled =>
    \A k \in 1..Len(corpus) :
      _matches_any(HeadingAndText(corpus[k]), _age_variants(age_range))
        <=> MentionsRange(corpus[k], age_range)

\* C10 as stated: in a successful run the chunks reported in
\* retrieved_evidence are the chunks that were put into the prompt.
C10_EvidenceIsPromptContext ==
  Succeeded =>
    [k \in 1..Len(result[1].retrieved_evidence) |-> result[1].retrieved_evidence[k].chunk_id]
      = Ids(llm_context)

-----------------------------------------------------------------------------
(* Properties of the parse cascade of generate_with_llm (SpecGen).         *)

SchemaValid(v) ==
  v.kind = "object" /\ v.keys = {"suggestions", "follow_up_questions"}

\* C2 as stated: a run of the cascade either fails with an error or returns
\* an object holding exactly the keys suggestions and follow_up_questions.
C2_ReturnsSchemaValidOrFails ==
  g_pc = "returned" => (g_out # <<>> /\ SchemaValid(g_out[1]))

\* strict parse of the raw text, and of its first-"{"-to-last-"}" slice
DirectOk(t) == json_loads(t) # <<>>
HasSlice(t) ==
  \E i, j \in 1..Len(t) :
    /\ i < j /\ t[i] = "{" /\ t[j] = "}"
    /\ \A k \in 1..(i - 1) : t[k] # "{"
    /\ \A k \in (j + 1)..Len(t) : t[k] # "}"
Slice(t) ==
  LET i == CHOOSE k \in 1..Len(t) : t[k] = "{" /\ \A m \in 1..(k - 1) : t[m] # "{"
      j == CHOOSE k \in 1..Len(t) : t[k] = "}" /\ \A m \in (k + 1)..Len(t) : t[m] # "}"
  IN  SubSeq(t, i, j)
SliceOk(t) == HasSlice(t) /\ json_loads(Slice(t)) # <<>>

\* C3: the repair call is made at most once per request and only after the
\* strict parse of raw_text and the parse of its first-"{"-to-last-"}" slice
\* have both failed; when either parses, no repair call is made and the
\* value returned is that parse.
C3_RepairOnlyAfterBothFail ==
  g_pc \in {"returned", "raised"} =>
    /\ repair_calls <= 1
    /\ repair_calls = 1 <=> (~DirectOk(raw[1]) /\ ~SliceOk(raw[1]))
    /\ repair_calls = 1 <=> repaired # <<>>
    /\ DirectOk(raw[1]) => g_out = json_loads(raw[1])
    /\ (~DirectOk(raw[1]) /\ SliceOk(raw[1])) => g_out = json_loads(Slice(raw[1]))

\* C3 witness: the raw text is prose around an object, the slice parses,
\* the value is returned and no repair call was made.
C3_Witness ==
  /\ g_pc = "returned"
  /\ ~DirectOk(raw[1]) /\ SliceOk(raw[1])
  /\ Len(Slice(raw[1])) < Len(raw[1])
  /\ repair_calls = 0
  /\ SchemaValid(g_out[1])

-----------------------------------------------------------------------------
(* Properties of concurrent _load_retriever (SpecLoad).                    *)

\* C4 as stated: whatever the interleaving, the corpus is ingested and the
\* retriever built at most once, and every request gets a retriever
\* together with the chunk list it was built from.
C4_AtMostOnceConstruction ==
  /\ ingests <= 1
  /\ builds <= 1
  /\ \A t \in Threads :
       t_ret[t] # <<>> => t_ret[t][1].retriever.built_from = t_ret[t][1].chunks

-----------------------------------------------------------------------------
(* Properties of HybridRetriever.retrieve (SpecRetrieve).                  *)

ResultIdx == [p \in 1..Len(r_out) |-> r_out[p].chunk_id]

\* the result is the first top_k of cand put in an order where `before`
\* decides which of two candidates comes first
FirstTopKOf(cand, before(_, _)) ==
  /\ Len(r_out) = Min(r_in.top_k, Cardinality(cand))
  /\ Range(ResultIdx) \subseteq cand
  /\ \A p, q \in 1..Len(r_out) : p < q => before(ResultIdx[p], ResultIdx[q])
  /\ \A i \in Range(ResultIdx) : \A j \in cand \ Range(ResultIdx) : before(i, j)

SimDescIdxAsc(i, j) ==
  r_in.sims[i] > r_in.sims[j] \/ (r_in.sims[i] = r_in.sims[j] /\ i < j)

SimDescIdxDesc(i, j) ==
  r_in.sims[i] > r_in.sims[j] \/ (r_in.sims[i] = r_in.sims[j] /\ i > j)

Candidates == Bm25TopIdx(MaxChunks, r_in.bm25_scores, r_in.bm25_top_n)

\* C8 as stated: the result is the first top_k of the lexical candidates
\* ordered by descending similarity, equal similarities by ascending corpus
\* index.
C8_TiesByAscendingIndex ==
  r_pc = "returned" => \E cand \in Candidates : FirstTopKOf(cand, SimDescIdxAsc)

\* C8 amended: the result is the first top_k of the lexical candidates
\* ordered by descending similarity, equal similarities by DESCENDING corpus
\* index: of two candidates with equal similarity the one with the larger
\* corpus index comes first, and is the one kept when top_k cuts between
\* them.
C8_TiesByDescendingIndex ==
  r_pc = "returned" => \E cand \in Candidates : FirstTopKOf(cand, SimDescIdxDesc)

\* C8 witness: two chunks of equal similarity are both in the result, and
\* top_k cuts between two candidates of equal similarity.
C8_Witness ==
  /\ r_pc = "returned"
  /\ \E p, q \in 1..Len(r_out) :
       p < q /\ r_in.sims[ResultIdx[p]] = r_in.sims[ResultIdx[q]]
  /\ \E cand \in Candidates :
       /\ FirstTopKOf(cand, SimDescIdxDesc)
       /\ \E i \in Range(ResultIdx), j \in cand \ Range(ResultIdx) :
            r_in.sims[i] = r_in.sims[j]

-----------------------------------------------------------------------------
(* Properties of _safe_context_set (SpecContext).                          *)

\* C6: for any retrieved list, any priority chunks (absent or coinciding)
\* and any top_k >= 0, the returned list has at most top_k entries and no
\* chunk_id twice.
C6_BoundedAndUnique ==
  c_pc = "returned" =>
    /\ Len(c_out) <= c_in.top_k
    /\ \A p, q \in 1..Len(c_out) : p # q => c_out[p].chunk_id # c_out[q].chunk_id

\* C6 witness: the priority chunks coincide, the retrieved list repeats an
\* id, more distinct ids are offered than top_k, and the result is full.
C6_Witness ==
  /\ c_pc = "returned"
  /\ c_in.age_chunk # <<>> /\ c_in.age_chunk = c_in.income_chunk
  /\ \E p, q \in 1..Len(c_in.retrieved) :
       p # q /\ c_in.retrieved[p] = c_in.retrieved[q] /\ c_in.retrieved[p].chunk_id # 0
  /\ c_in.top_k >= 2
  /\ Cardinality({ c.chunk_id : c \in Range(c_in.retrieved) \cup Range(c_in.age_chunk)
                                       \cup Range(c_in.rationale_chunk) } \ {0}) > c_in.top_k
  /\ Len(c_out) = c_in.top_k

====
